---------------------------- MODULE Spec2Model ----------------------------
(***************************************************************************)
(* Model of gdtoolkit/common/ast.py: the post-processing of a lark parse   *)
(* tree into Statement / Parameter / Function / Class / AbstractSyntaxTree *)
(* objects.                                                                *)
(*                                                                         *)
(* A lark Tree is a record [data, id, children]; `id` is the path of the   *)
(* node from the root of the parse tree and stands for the identity of the *)
(* Python object (two nodes of one tree are never the same object).  A     *)
(* lark Token is a record [type, value].  An object under construction     *)
(* either is built (a record of its attributes) or the constructor raised, *)
(* which is the record [exc |-> <exception class>].                        *)
(***************************************************************************)
EXTENDS Integers, Sequences, FiniteSets, TLC

\* ------------------------------------------------------------------ bounds
\* statement nodes in a statement tree handed to Statement / Function
MaxStmts == 4
\* entries of a function header's func_args subtree
MaxParams == 3
\* member nodes (tokens, statements, functions, classes) below a file root
MaxMembers == 3

\* ------------------------------------------------------- parse tree (lark)
Tree(data, children) == [data |-> data, children |-> children]
Token(type, value) == [type |-> type, value |-> value]
IsTree(x) == "data" \in DOMAIN x
IsToken(x) == "type" \in DOMAIN x

RECURSIVE Label(_, _)
\* the parse tree with every Tree node given its identity (its path)
Label(t, path) ==
    IF IsTree(t)
    THEN [data |-> t.data,
          id |-> path,
          children |-> [i \in 1..Len(t.children) |->
                           Label(t.children[i], Append(path, i))]]
    ELSE t

\* s[from..], Python's s[from-1:]
Tail2(s, from) == SubSeq(s, from, Len(s))

RECURSIVE Concat(_)
\* concatenation of a sequence of sequences
Concat(ss) == IF ss = <<>> THEN <<>> ELSE Head(ss) \o Concat(Tail(ss))

\* ---------------------------------------------------------------- raising
Raise(e) == [exc |-> e]
IsExc(x) == "exc" \in DOMAIN x
\* the first exception raised while the elements of a list are built in order
FirstExc(built) ==
    built[CHOOSE i \in 1..Len(built) :
             IsExc(built[i]) /\ \A j \in 1..(i - 1) : ~IsExc(built[j])]
AnyExc(built) == \E i \in 1..Len(built) : IsExc(built[i])

\* --------------------------------------------------------------- Statement
\* a branch rule that skips the first child of every branch, else included
IfBranchNodes_SkipAlways(branch) == Tail2(branch.children, 2)

\* one branch of an if_stmt: the nodes its sub-statements are built from
IfBranchNodes(branch) ==
    IF branch.data \in {"if_branch", "elif_branch"}
    THEN Tail2(branch.children, 2)
    ELSE branch.children

\* one branch of a match_stmt: the nodes its sub-statements are built from
MatchBranchNodes(branch) == Tail2(branch.children, 2)

\* a rule that treats a for_stmt like a while_stmt (one child skipped)
SubStatementNodes_ForAsWhile(node) ==
    IF node.data \in {"func_def", "static_func_def", "while_stmt", "for_stmt"}
    THEN Tail2(node.children, 2)
    ELSE IF node.data = "if_stmt"
    THEN Concat([i \in 1..Len(node.children) |-> IfBranchNodes(node.children[i])])
    ELSE IF node.data = "match_stmt"
    THEN Concat([i \in 1..Len(node.children) |-> MatchBranchNodes(node.children[i])])
    ELSE <<>>

\* the nodes the sub-statements of a statement node are built from, by kind
SubStatementNodes(node) ==
    IF node.data \in {"func_def", "static_func_def"}
    THEN Tail2(node.children, 2)
    ELSE IF node.data = "if_stmt"
    THEN Concat([i \in 1..Len(node.children) |-> IfBranchNodes(node.children[i])])
    ELSE IF node.data = "while_stmt"
    THEN Tail2(node.children, 2)
    ELSE IF node.data = "for_stmt"
    THEN Tail2(node.children, 3)
    ELSE IF node.data = "match_stmt"
    THEN Concat([i \in 1..Len(node.children) |-> MatchBranchNodes(node.children[i])])
    ELSE <<>>

\* a flattening that lists a sub-statement after its descendants
FlattenSubStatements_PostOrder(subs) ==
    Concat([i \in 1..Len(subs) |-> subs[i].all_sub_statements \o <<subs[i]>>])

\* all_sub_statements: each sub-statement followed by its own flattened list
FlattenSubStatements(subs) ==
    Concat([i \in 1..Len(subs) |-> <<subs[i]>> \o subs[i].all_sub_statements])

\* a check that forgets property_body_def
RefusedKind_ClassDefOnly(kind) == kind = "class_def"

\* the two kinds the statement builder refuses
RefusedKind(kind) == kind = "class_def" \/ kind = "property_body_def"

RECURSIVE Statement(_)
Statement(node) ==
    IF RefusedKind(node.data)
    THEN Raise("NotImplementedError")
    ELSE LET srcs == SubStatementNodes(node)
             built == [i \in 1..Len(srcs) |-> Statement(srcs[i])]
         IN  IF AnyExc(built)
             THEN FirstExc(built)
             ELSE [kind |-> node.data,
                   lark_node |-> node,
                   sub_statements |-> built,
                   all_sub_statements |-> FlattenSubStatements(built)]


\* ------------------------------------------------------- lookup utilities
\* Python's None; no NAME token has this value (it is no identifier)
None == "<None>"

\* find_name_token_among_children: the first NAME token among the children
find_name_token_among_children(tree) ==
    LET hits == {i \in 1..Len(tree.children) :
                    IsToken(tree.children[i]) /\ tree.children[i].type = "NAME"}
    IN  IF hits = {} THEN Token("none", None)
        ELSE tree.children[CHOOSE i \in hits : \A j \in hits : i <= j]

\* find_tree_among_children: the first child subtree of the given kind
find_tree_among_children(kind, tree) ==
    LET hits == {i \in 1..Len(tree.children) :
                    IsTree(tree.children[i]) /\ tree.children[i].data = kind}
    IN  IF hits = {} THEN Token("none", None)
        ELSE tree.children[CHOOSE i \in hits : \A j \in hits : i <= j]

\* --------------------------------------------------------------- Parameter
\* node.children[0].value; an empty list of children has no index 0
Parameter(node) ==
    IF node.children = <<>> THEN Raise("IndexError")
    ELSE [name |-> node.children[1].value]

\* ---------------------------------------------------------------- Function
\* a filter that drops the marker only where it is the last entry
ParameterNodes_LastOnly(func_args) ==
    LET cs == func_args.children
    IN  IF cs # <<>> /\ cs[Len(cs)].data = "trailing_comma"
        THEN SubSeq(cs, 1, Len(cs) - 1)
        ELSE cs

\* the children of func_args a Parameter is built for
ParameterNodes(func_args) ==
    SelectSeq(func_args.children, LAMBDA c : c.data # "trailing_comma")

\* the Parameter built (or the exception raised) for each parameter node
LoadParameters(func_args) ==
    LET srcs == ParameterNodes(func_args)
    IN  [i \in 1..Len(srcs) |-> Parameter(srcs[i])]

\* all_statements without the function itself
AllStatements_NoSelf(self) == self.all_sub_statements

\* all_statements; the reference to the function itself is the Statement
\* the function is (its identity is that of its lark_node)
AllStatements(self) == <<self>> \o self.all_sub_statements

\* _load_data_from_func_def: name and parameters, from the header
_load_data_from_func_def(self, func_def) ==
    LET func_header == func_def.children[1]
        name_token == find_name_token_among_children(func_header)
        func_args == find_tree_among_children("func_args", func_header)
    IN  IF name_token.type = "none" THEN Raise("AttributeError")
        ELSE IF IsToken(func_args) THEN Raise("AttributeError")
        ELSE LET parameters == LoadParameters(func_args)
             IN  IF AnyExc(parameters) THEN FirstExc(parameters)
                 ELSE [self EXCEPT !.name = name_token.value,
                                   !.parameters = parameters]

Function(func_def) ==
    LET super == Statement(func_def)
    IN  IF IsExc(super) THEN super
        ELSE _load_data_from_func_def(
                 [kind |-> super.kind,
                  lark_node |-> super.lark_node,
                  sub_statements |-> super.sub_statements,
                  all_sub_statements |-> super.all_sub_statements,
                  name |-> "",
                  parameters |-> <<>>,
                  all_statements |-> AllStatements(super)],
                 func_def)

\* ------------------------------------------------------------------- Class
\* the Class before its node's children are scanned
NewClass(parse_tree) ==
    [lark_node |-> parse_tree,
     name |-> None,
     sub_classes |-> <<>>,
     all_sub_classes |-> <<>>,
     functions |-> <<>>,
     all_functions |-> <<>>]

\* a step that puts the nested class's functions before those found so far
AddSubClass_FunctionsFirst(self, sub_class) ==
    [self EXCEPT
        !.sub_classes = Append(@, sub_class),
        !.all_sub_classes = @ \o <<sub_class>> \o sub_class.all_sub_classes,
        !.all_functions = sub_class.all_functions \o @]

\* a step that lists the nested class without the classes nested in it
AddSubClass_DirectOnly(self, sub_class) ==
    [self EXCEPT
        !.sub_classes = Append(@, sub_class),
        !.all_sub_classes = Append(@, sub_class),
        !.all_functions = @ \o sub_class.all_functions]

\* the scan's step for a class_def child, once its Class is built
AddSubClass(self, sub_class) ==
    [self EXCEPT
        !.sub_classes = Append(@, sub_class),
        !.all_sub_classes = @ \o <<sub_class>> \o sub_class.all_sub_classes,
        !.all_functions = @ \o sub_class.all_functions]

\* the scan's step for a func_def child, once its Function is built
AddFunction(self, function) ==
    [self EXCEPT
        !.functions = Append(@, function),
        !.all_functions = Append(@, function)]

\* a scan that builds a Function for static functions too
IsFunctionChild_StaticToo(stmt) ==
    IsTree(stmt) /\ stmt.data \in {"func_def", "static_func_def"}

\* the children the scan builds a Class / a Function for
IsClassChild(stmt) == IsTree(stmt) /\ stmt.data = "class_def"
IsFunctionChild(stmt) == IsTree(stmt) /\ stmt.data = "func_def"

\* a dispatch whose class_def arm is missing
IsClassDef_Never(parse_tree) == FALSE

\* the kinds a Class is built from
IsFileRoot(parse_tree) == parse_tree.data = "start"
IsClassDef(parse_tree) == parse_tree.data = "class_def"

RECURSIVE Class(_)
RECURSIVE _load_data_from_node_children(_, _, _)
\* _load_data_from_node_children, from the i-th child of node on
_load_data_from_node_children(self, node, i) ==
    IF i > Len(node.children) THEN self
    ELSE LET stmt == node.children[i]
         IN  IF IsClassChild(stmt)
             THEN LET sub_class == Class(stmt)
                  IN  IF IsExc(sub_class) THEN sub_class
                      ELSE _load_data_from_node_children(
                               AddSubClass(self, sub_class), node, i + 1)
             ELSE IF IsFunctionChild(stmt)
             THEN LET function == Function(stmt)
                  IN  IF IsExc(function) THEN function
                      ELSE _load_data_from_node_children(
                               AddFunction(self, function), node, i + 1)
             ELSE _load_data_from_node_children(self, node, i + 1)

\* _load_data_from_class_def
_load_data_from_class_def(self, class_def) ==
    LET name_token == find_name_token_among_children(class_def)
    IN  IF name_token.type = "none" THEN Raise("AttributeError")
        ELSE _load_data_from_node_children(
                 [self EXCEPT !.name = name_token.value], class_def, 1)

Class(parse_tree) ==
    IF IsFileRoot(parse_tree)
    THEN _load_data_from_node_children(NewClass(parse_tree), parse_tree, 1)
    ELSE IF IsClassDef(parse_tree)
    THEN _load_data_from_class_def(NewClass(parse_tree), parse_tree)
    ELSE Raise("Exception")

\* ------------------------------------------------------ AbstractSyntaxTree
AllClasses(root_class) == <<root_class>> \o root_class.all_sub_classes

AbstractSyntaxTree(parse_tree) ==
    LET root_class == Class(parse_tree)
    IN  IF IsExc(root_class) THEN root_class
        ELSE [root_class |-> root_class,
              all_classes |-> AllClasses(root_class),
              all_functions |-> root_class.all_functions]


\* ---------------------------------------------------------- parse trees in
\* The parse trees handed to the constructors: what the grammar's statement,
\* function, class and file productions yield, up to the bounds.
Expr == Tree("expr", <<Token("NAME", "x")>>)
Header(name, args) ==
    Tree("func_header", <<Token("NAME", name), Tree("func_args", args)>>)
PassStmt == Tree("pass_stmt", <<>>)

\* statements of one node: a leaf kind, and the two kinds Statement refuses
LeafStmts ==
    {Tree("return_stmt", <<Expr>>),
     Tree("class_def", <<Token("NAME", "Inner"), PassStmt>>),
     Tree("property_body_def", <<>>)}

\* Statement trees are generated level by level: T[k] is the set of the
\* statement trees of exactly k statement nodes, B[m] the set of the
\* sequences of statements of m statement nodes in all.

\* B[m] of a sequence B of levels, B[0] being the empty body alone
BodyAt(B, m) == IF m = 0 THEN {<<>>} ELSE B[m]

\* B[m], from T[1..m] and B[0..m-1]
BodiesOf(T, B, m) ==
    UNION {{<<t>> \o rest : t \in T[j], rest \in BodyAt(B, m - j)} : j \in 1..m}

RECURSIVE IfTails(_, _)
\* the branches after the if_branch: elif branches, then at most one else
IfTails(B, m) ==
    IF m = 0 THEN {<<>>}
    ELSE {<<Tree("else_branch", b)>> : b \in B[m]}
         \cup UNION {{<<Tree("elif_branch", <<Expr>> \o b)>> \o rest :
                         b \in B[j], rest \in IfTails(B, m - j)} : j \in 1..m}

RECURSIVE MatchBranches(_, _)
\* one or more match branches, each a pattern and a body
MatchBranches(B, m) ==
    UNION {{<<Tree("match_branch", <<Tree("pattern", <<>>)>> \o b)>> \o rest :
               b \in B[j],
               rest \in (IF j = m THEN {<<>>} ELSE MatchBranches(B, m - j))} :
             j \in 1..m}

\* T[k], from B[1..k-1]
StmtTreesOf(B, k) ==
    IF k = 1 THEN LeafStmts
    ELSE {Tree("func_def", <<Header("f", <<>>)>> \o b) : b \in B[k - 1]}
         \cup {Tree("static_func_def", <<Header("f", <<>>)>> \o b) : b \in B[k - 1]}
         \cup {Tree("while_stmt", <<Expr>> \o b) : b \in B[k - 1]}
         \cup {Tree("for_stmt", <<Token("NAME", "i"), Expr>> \o b) : b \in B[k - 1]}
         \cup UNION {{Tree("if_stmt", <<Tree("if_branch", <<Expr>> \o b)>> \o rest) :
                         b \in B[j], rest \in IfTails(B, k - 1 - j)} :
                       j \in 1..(k - 1)}
         \cup {Tree("match_stmt", bs) : bs \in MatchBranches(B, k - 1)}

RECURSIVE StmtLevels(_)
\* [T, B] up to level k
StmtLevels(k) ==
    IF k = 0 THEN [T |-> <<>>, B |-> <<>>]
    ELSE LET prev == StmtLevels(k - 1)
             T == Append(prev.T, StmtTreesOf(prev.B, k))
         IN  [T |-> T, B |-> Append(prev.B, BodiesOf(T, prev.B, k))]

\* the sequences of statements of m statement nodes in all, m > 0
Bodies(m) == StmtLevels(m).B[m]

StmtInputs ==
    LET prev == StmtLevels(MaxStmts - 1)
    IN  UNION {prev.T[k] : k \in 1..(MaxStmts - 1)}
        \cup StmtTreesOf(prev.B, MaxStmts)

\* entries of func_args: two kinds of argument and the trailing-comma marker
ParamEntries ==
    {Tree("func_arg_regular", <<Token("NAME", "a")>>),
     Tree("func_arg_typed", <<Token("NAME", "b"), Token("TYPE", "int")>>),
     Tree("trailing_comma", <<>>)}

RECURSIVE SeqsUpTo(_, _)
\* the sequences over S of length at most n
SeqsUpTo(S, n) ==
    IF n = 0 THEN {<<>>}
    ELSE {<<>>} \cup {<<x>> \o r : x \in S, r \in SeqsUpTo(S, n - 1)}

\* function definitions over every header
FuncInputs ==
    {Tree("func_def", <<Header(name, args)>> \o b) :
        name \in {"bar"}, args \in SeqsUpTo(ParamEntries, MaxParams),
        b \in Bodies(1)}

\* func bar(a, b): pass
FuncBar ==
    Tree("func_def",
         <<Header("bar", <<Tree("func_arg_regular", <<Token("NAME", "a")>>),
                           Tree("func_arg_regular", <<Token("NAME", "b")>>)>>),
           PassStmt>>)

\* func baz(): if true: pass else: pass
FuncBaz ==
    Tree("func_def",
         <<Header("baz", <<>>),
           Tree("if_stmt", <<Tree("if_branch", <<Expr, PassStmt>>),
                             Tree("else_branch", <<PassStmt>>)>>)>>)

\* func qux(a,): a body that holds a property body inside a loop
FuncQux ==
    Tree("func_def",
         <<Header("qux", <<Tree("func_arg_regular", <<Token("NAME", "a")>>),
                           Tree("trailing_comma", <<>>)>>),
           Tree("while_stmt", <<Expr, Tree("property_body_def", <<>>)>>)>>)

\* function definitions found in class bodies
FileFuncs == {FuncBar, FuncBaz, FuncQux}

\* members of a class body of one node: a token, a statement, a static
\* function, a function
LeafMembers ==
    {Token("_NL", "\n"),
     Tree("class_var_stmt", <<Token("NAME", "v")>>),
     Tree("static_func_def", <<Header("sfn", <<>>), PassStmt>>)}
    \cup FileFuncs

ClassNames == {"Foo", "Bar"}

RECURSIVE MemberTrees(_)
RECURSIVE Members(_)
\* sequences of members of m member nodes in all
Members(m) ==
    IF m = 0 THEN {<<>>}
    ELSE UNION {{<<t>> \o rest : t \in MemberTrees(j), rest \in Members(m - j)} :
                  j \in 1..m}

\* members of exactly k member nodes; a class_def is its name and its body
MemberTrees(k) ==
    IF k = 1 THEN LeafMembers
    ELSE {Tree("class_def", <<Token("NAME", name)>> \o b) :
             name \in ClassNames, b \in Members(k - 1)}

FileInputs == UNION {{Tree("start", b) : b \in Members(m)} : m \in 0..MaxMembers}

Inputs == {Label(t, <<>>) : t \in StmtInputs \cup FuncInputs \cup FileInputs}

\* ----------------------------------------------------------- state machine
VARIABLES node, op, result
vars == <<node, op, result>>

NotCalled == [none |-> TRUE]

Init ==
    /\ node \in Inputs
    /\ op = "none"
    /\ result = NotCalled

\* Statement(node)
CallStatement ==
    /\ op = "none"
    /\ op' = "Statement"
    /\ result' = Statement(node)
    /\ UNCHANGED node

\* Function(node), on a function-definition node
CallFunction ==
    /\ op = "none"
    /\ node.data = "func_def"
    /\ op' = "Function"
    /\ result' = Function(node)
    /\ UNCHANGED node

\* Class(node)
CallClass ==
    /\ op = "none"
    /\ op' = "Class"
    /\ result' = Class(node)
    /\ UNCHANGED node

\* AbstractSyntaxTree(node)
CallAbstractSyntaxTree ==
    /\ op = "none"
    /\ op' = "AbstractSyntaxTree"
    /\ result' = AbstractSyntaxTree(node)
    /\ UNCHANGED node

Next ==
    \/ CallStatement
    \/ CallFunction
    \/ CallClass
    \/ CallAbstractSyntaxTree

Spec == Init /\ [][Next]_vars

Built == op # "none" /\ ~IsExc(result)
Raised == op # "none" /\ IsExc(result)


\* ------------------------------------------------- what a call has built
Range(seq) == {seq[i] : i \in 1..Len(seq)}

\* the Statement a Function is
AsStatement(s) ==
    [kind |-> s.kind,
     lark_node |-> s.lark_node,
     sub_statements |-> s.sub_statements,
     all_sub_statements |-> s.all_sub_statements]

\* every Function the call has built
FunctionsBuilt ==
    IF ~Built THEN {}
    ELSE IF op = "Function" THEN {result}
    ELSE IF op = "Class" \/ op = "AbstractSyntaxTree"
    THEN Range(result.all_functions)
    ELSE {}

\* every Class the call has built
ClassesBuilt ==
    IF ~Built THEN {}
    ELSE IF op = "Class" THEN {result} \cup Range(result.all_sub_classes)
    ELSE IF op = "AbstractSyntaxTree" THEN Range(result.all_classes)
    ELSE {}

\* every Statement the call has built
StatementsBuilt ==
    IF ~Built THEN {}
    ELSE IF op = "Statement" THEN {result} \cup Range(result.all_sub_statements)
    ELSE UNION {Range(f.all_statements) : f \in FunctionsBuilt}

\* the identities of the nodes a list of statements (functions, classes) wraps
Ids(objs) == [i \in 1..Len(objs) |-> objs[i].lark_node.id]

\* source order of two nodes of one parse tree: p is an ancestor of q, or p
\* lies in an earlier child of their deepest common ancestor
PathLess(p, q) ==
    \E k \in 1..Len(q) :
        /\ k <= Len(p) + 1
        /\ \A j \in 1..(k - 1) : p[j] = q[j]
        /\ (k = Len(p) + 1 \/ p[k] < q[k])

StrictlyInSourceOrder(ids) ==
    \A i, j \in 1..Len(ids) : i < j => PathLess(ids[i], ids[j])

RECURSIVE PreOrder(_)
\* the depth-first pre-order walk along sub_statements
PreOrder(s) ==
    <<AsStatement(s)>>
    \o Concat([i \in 1..Len(s.sub_statements) |-> PreOrder(s.sub_statements[i])])

RECURSIVE Descendants(_)
\* the identities of the sub-statements reachable along sub_statements
Descendants(s) ==
    UNION {{s.sub_statements[i].lark_node.id} \cup Descendants(s.sub_statements[i]) :
             i \in 1..Len(s.sub_statements)}

\* ------------------------------------------------------------------ claims

\* C1: for every Function built from a function-definition node,
\* all_statements is the depth-first pre-order listing: the function itself
\* first, then every transitively reachable sub-statement in source order,
\* each direct sub-statement immediately followed by its own descendants;
\* the length of all_sub_statements is the number of reachable sub-statement
\* nodes and no statement appears twice.
C1_AllStatementsPreOrder ==
    \A f \in FunctionsBuilt :
        /\ f.lark_node.data = "func_def"
        /\ f.all_statements = PreOrder(f)
        /\ f.all_statements[1].lark_node = f.lark_node
        /\ StrictlyInSourceOrder(Ids(f.all_statements))
        /\ Range(Ids(f.all_sub_statements)) = Descendants(f)
        /\ Len(f.all_sub_statements) = Cardinality(Descendants(f))

\* C1 witness: a Function whose first sub-statement has a sub-statement of its
\* own and is followed by a second sub-statement
C1_Witness ==
    /\ op = "Function"
    /\ Built
    /\ Len(result.sub_statements) = 2
    /\ Len(result.sub_statements[1].sub_statements) = 1
    /\ Len(result.all_statements) = 4

\* the children of a branch that are statements: all but the condition of
\* an if_branch or elif_branch, all of any other branch
IfBranchFirst(branch) ==
    IF branch.data = "if_branch" \/ branch.data = "elif_branch" THEN 2 ELSE 1

\* C2: the sub_statements of a conditional statement are built from, for
\* every if/elif branch, all the branch's children but the first (the
\* condition) and, for an else branch, every child, in branch order and within
\* a branch in child order; for branches [if(cond, s1), elif(cond2, s2),
\* else(s3)] they are [s1, s2, s3].
C2_IfSubStatements ==
    \A s \in StatementsBuilt :
        s.kind = "if_stmt" =>
            LET n == s.lark_node
                ids == Ids(s.sub_statements)
                d == Len(n.id)
            IN  /\ Range(ids) =
                       UNION {{n.id \o <<b, c>> :
                                  c \in IfBranchFirst(n.children[b])
                                        ..Len(n.children[b].children)} :
                                b \in 1..Len(n.children)}
                /\ StrictlyInSourceOrder(ids)
                /\ \A i \in 1..Len(ids) :
                       /\ Len(ids[i]) = d + 2
                       /\ s.sub_statements[i].lark_node
                              = n.children[ids[i][d + 1]].children[ids[i][d + 2]]

\* C2 witness: a built conditional of an if, an elif and an else branch of one
\* statement each, whose sub_statements are those three statements
C2_Witness ==
    /\ op = "Statement"
    /\ Built
    /\ node.data = "if_stmt"
    /\ [i \in 1..Len(node.children) |-> node.children[i].data]
           = <<"if_branch", "elif_branch", "else_branch">>
    /\ Ids(result.sub_statements) = << <<1, 2>>, <<2, 2>>, <<3, 1>> >>

\* class Foo: func bar(a, b): pass, then func baz(): if true: pass else: pass
C3_File ==
    Label(Tree("start", <<Tree("class_def", <<Token("NAME", "Foo"), FuncBar>>),
                          FuncBaz>>), <<>>)

\* C3 as claimed: for that file, the Function baz (the second function, the
\* file root's second child) built by AbstractSyntaxTree has all_statements
\* of length 3.
C3_AsClaimed ==
    (op = "AbstractSyntaxTree" /\ node = C3_File) =>
        /\ Built
        /\ Ids(result.all_functions) = << <<1, 2>>, <<2>> >>
        /\ Len(result.all_functions[2].all_statements) = 3

\* C3 amended: for that file, the Function baz built by AbstractSyntaxTree
\* has all_statements of length 4 (baz itself, the conditional statement and
\* its two leaf statements) and all_sub_statements of length 3.
C3_EndToEnd ==
    (op = "AbstractSyntaxTree" /\ node = C3_File) =>
        /\ Built
        /\ Ids(result.all_functions) = << <<1, 2>>, <<2>> >>
        /\ Len(result.all_functions[2].all_statements) = 4
        /\ [i \in 1..4 |-> result.all_functions[2].all_statements[i].kind]
               = <<"func_def", "if_stmt", "pass_stmt", "pass_stmt">>
        /\ Len(result.all_functions[2].all_sub_statements) = 3

\* C3 witness: AbstractSyntaxTree has been built from that file
C3_Witness ==
    /\ op = "AbstractSyntaxTree"
    /\ node = C3_File
    /\ Built
    /\ Len(result.all_functions) = 2
    /\ result.all_functions[2].lark_node = C3_File.children[2]
    /\ result.all_functions[2].sub_statements[1].kind = "if_stmt"

\* C4: in every Class, all_functions follows the order in which the class
\* node's children are scanned: a function defined before a nested class
\* comes before every function of that nested class (at any depth), one
\* defined after it comes after them all; all_functions holds every element
\* of functions and the functions of every nested class, and functions holds
\* only functions that are direct children of the class node.
C4_AllFunctionsOrder ==
    \A c \in ClassesBuilt :
        LET n == c.lark_node
            d == Len(n.id)
            ids == Ids(c.all_functions)
        IN  /\ \A a, b \in 1..Len(ids) :
                   (Len(ids[a]) = d + 1 /\ Len(ids[b]) > d + 1) =>
                       /\ n.children[ids[b][d + 1]].data = "class_def"
                       /\ (ids[a][d + 1] < ids[b][d + 1] <=> a < b)
            /\ Range(c.functions) \subseteq Range(c.all_functions)
            /\ \A sc \in Range(c.sub_classes) :
                   Range(sc.all_functions) \subseteq Range(c.all_functions)
            /\ \A f \in Range(c.functions) :
                   /\ Len(f.lark_node.id) = d + 1
                   /\ n.children[f.lark_node.id[d + 1]] = f.lark_node

\* C4 witness: a file of a class that defines a function, followed by a
\* function; the class's function is listed first
C4_Witness ==
    /\ op = "AbstractSyntaxTree"
    /\ Built
    /\ Len(result.root_class.functions) = 1
    /\ Ids(result.all_functions) = << <<1, 2>>, <<2>> >>

RECURSIVE ClassDefIds(_)
\* the file root and the class definitions nested in it, depth-first
ClassDefIds(n) ==
    <<n.id>>
    \o Concat([i \in 1..Len(n.children) |->
                  IF IsTree(n.children[i]) /\ n.children[i].data = "class_def"
                  THEN ClassDefIds(n.children[i])
                  ELSE <<>>])

RECURSIVE NodeAt(_, _)
\* the node of a parse tree at a path
NodeAt(n, path) ==
    IF path = <<>> THEN n ELSE NodeAt(n.children[Head(path)], Tail(path))

RECURSIVE NamesOfArgs(_)
\* the names of the entries of func_args that are no trailing-comma marker
NamesOfArgs(cs) ==
    IF cs = <<>> THEN <<>>
    ELSE IF Head(cs).data = "trailing_comma" THEN NamesOfArgs(Tail(cs))
    ELSE <<Head(cs).children[1].value>> \o NamesOfArgs(Tail(cs))

\* the func_args subtree of a function definition's header
FuncArgsOf(func_def) ==
    CHOOSE c \in Range(func_def.children[1].children) :
        IsTree(c) /\ c.data = "func_args"

\* C6: a Function's parameters hold one Parameter for each direct child of
\* the header's func_args that is no trailing-comma marker, in source order,
\* wherever the markers stand (they never make the construction fail);
\* (a, b, ) yields [a, b].
C6_Parameters ==
    /\ \A f \in FunctionsBuilt :
           LET cs == FuncArgsOf(f.lark_node).children
           IN  /\ [i \in 1..Len(f.parameters) |-> f.parameters[i].name]
                      = NamesOfArgs(cs)
               /\ Len(f.parameters)
                      = Cardinality({i \in 1..Len(cs) : cs[i].data # "trailing_comma"})
    /\ (op = "Function" /\ Raised) => result = Raise("NotImplementedError")

\* C6 witness: a Function built from the parameter list (a, b, )
C6_Witness ==
    /\ op = "Function"
    /\ Built
    /\ [i \in 1..Len(FuncArgsOf(node).children) |-> FuncArgsOf(node).children[i].data]
           = <<"func_arg_regular", "func_arg_typed", "trailing_comma">>
    /\ result.parameters = <<[name |-> "a"], [name |-> "b"]>>

\* the two kinds of node no Statement is built from
Disallowed == {"class_def", "property_body_def"}

RECURSIVE HoldsDisallowed(_)
\* a node of a disallowed kind is at or below n.  Below a statement node of
\* the grammar such a node only stands where a statement stands: headers,
\* conditions, loop variables and patterns hold none.
HoldsDisallowed(n) ==
    /\ IsTree(n)
    /\ \/ n.data \in Disallowed
       \/ \E i \in 1..Len(n.children) : HoldsDisallowed(n.children[i])

RECURSIVE FunctionHoldsDisallowed(_)
\* a function the scan of class node n builds (in n or in a class nested in
\* n) has a node of a disallowed kind in its body
FunctionHoldsDisallowed(n) ==
    \E i \in 1..Len(n.children) :
        LET c == n.children[i]
        IN  /\ IsTree(c)
            /\ \/ /\ c.data = "func_def"
                  /\ \E j \in 2..Len(c.children) : HoldsDisallowed(c.children[j])
               \/ /\ c.data = "class_def"
                  /\ FunctionHoldsDisallowed(c)

\* C7: building a Statement from a class_def or property_body_def node
\* raises NotImplementedError and never yields a Statement, whether the node
\* is passed directly or reached as a sub-statement at any depth; the
\* enclosing Function, Class and AbstractSyntaxTree construction then raises
\* as a whole and returns nothing built.
C7_DisallowedKindsRaise ==
    /\ ((op = "Statement" \/ op = "Function")
            /\ node.data # "start" /\ HoldsDisallowed(node))
           => result = Raise("NotImplementedError")
    /\ ((op = "Class" \/ op = "AbstractSyntaxTree")
            /\ node.data \in {"start", "class_def"}
            /\ FunctionHoldsDisallowed(node))
           => result = Raise("NotImplementedError")
    /\ \A s \in StatementsBuilt : s.kind \notin Disallowed

\* C7 witness: AbstractSyntaxTree raised on a file whose first member is a
\* class with a function that holds a property body inside a loop
C7_Witness ==
    /\ op = "AbstractSyntaxTree"
    /\ node.data = "start"
    /\ Len(node.children) >= 1
    /\ IsTree(node.children[1])
    /\ node.children[1].data = "class_def"
    /\ FunctionHoldsDisallowed(node.children[1])
    /\ result = Raise("NotImplementedError")

\* C8: building a Class from a node that is neither the file root nor a
\* class definition raises Exception, whatever the kind (a function
\* definition included); from a file root or a class definition it does not.
C8_InvalidRootNode ==
    op = "Class" =>
        (node.data \notin {"start", "class_def"} <=> result = Raise("Exception"))

\* C8 witness: Class raised on a function definition
C8_Witness ==
    /\ op = "Class"
    /\ node.data = "func_def"
    /\ result = Raise("Exception")

\* the part of a path below the node with identity `root`
Below(root, id) == SubSeq(id, Len(root) + 1, Len(id))

\* C9: the sub_statements of every Statement follow its kind's rule: all the
\* children but the first for a function definition (plain or static) and a
\* while loop, all but the first two for a for loop, for a match statement
\* all the children but the first of each branch in branch order, none for
\* every other kind but the two disallowed ones, which is built without
\* error; the sub-statements are in the source order of those children.
C9_PerKindRule ==
    /\ \A s \in StatementsBuilt :
           LET n == s.lark_node
               ids == Ids(s.sub_statements)
               len == Len(n.children)
           IN  /\ \A i \in 1..Len(ids) :
                      s.sub_statements[i].lark_node = NodeAt(n, Below(n.id, ids[i]))
               /\ s.kind \in {"func_def", "static_func_def", "while_stmt"} =>
                      ids = [c \in 1..(len - 1) |-> n.id \o <<c + 1>>]
               /\ s.kind = "for_stmt" =>
                      ids = [c \in 1..(len - 2) |-> n.id \o <<c + 2>>]
               /\ s.kind = "match_stmt" =>
                      /\ Range(ids) =
                             UNION {{n.id \o <<b, c>> :
                                        c \in 2..Len(n.children[b].children)} :
                                      b \in 1..len}
                      /\ StrictlyInSourceOrder(ids)
               /\ s.kind \notin {"func_def", "static_func_def", "while_stmt",
                                 "for_stmt", "match_stmt", "if_stmt"} =>
                      ids = <<>>
    /\ (op = "Statement"
            /\ node.data \notin {"func_def", "static_func_def", "while_stmt",
                                 "for_stmt", "match_stmt", "if_stmt"}
            /\ node.data \notin Disallowed)
           => (Built /\ result.sub_statements = <<>>)

\* C9 witness: a for loop whose body is a match statement of two branches
C9_Witness ==
    /\ op = "Statement"
    /\ Built
    /\ node.data = "for_stmt"
    /\ Ids(result.sub_statements) = << <<3>> >>
    /\ result.sub_statements[1].kind = "match_stmt"
    /\ Ids(result.sub_statements[1].sub_statements) = << <<3, 1, 2>>, <<3, 2, 2>> >>

\* C10: a static function definition that is a direct child of a file root
\* or a class definition is not built as a Function by the Class scan: it is
\* in no functions and no all_functions list, AbstractSyntaxTree.all_functions
\* included; the Statement builder accepts a static function definition with
\* the rule of a plain one.
C10_StaticFunctionsSkipped ==
    /\ \A c \in ClassesBuilt :
           \A f \in Range(c.functions) \cup Range(c.all_functions) :
               /\ f.lark_node.data = "func_def"
               /\ f.kind = "func_def"
    /\ (op = "AbstractSyntaxTree" /\ Built) =>
           \A f \in Range(result.all_functions) : f.lark_node.data = "func_def"
    /\ (op = "Statement" /\ node.data = "static_func_def" /\ ~HoldsDisallowed(node)) =>
           /\ Built
           /\ Ids(result.sub_statements)
                  = [c \in 1..(Len(node.children) - 1) |-> node.id \o <<c + 1>>]

\* C10 witness: an AbstractSyntaxTree built from a file that defines a static
\* function and a function; only the latter is listed
C10_Witness ==
    /\ op = "AbstractSyntaxTree"
    /\ Built
    /\ node.data = "start"
    /\ \E i \in 1..Len(node.children) :
           IsTree(node.children[i]) /\ node.children[i].data = "static_func_def"
    /\ Len(result.all_functions) = 1

=============================================================================
